---- MODULE Spec2Model ----
(***************************************************************************)
(* The e-mail delivery queue of the air-quality backend: the module-level  *)
(* emailQueue / isProcessingQueue pair, the async worker processEmailQueue *)
(* and the request handlers that push onto the queue and await the item's  *)
(* promise.  JavaScript runs one task at a time, so every action below is  *)
(* one run-to-completion segment of the code: from the event that wakes it *)
(* up to the next await.                                                   *)
(***************************************************************************)
EXTENDS Naturals, Integers, Sequences, FiniteSets

\* Number of requests the handlers submit in one exploration.
MaxRequests == 3

\* setTimeout(resolve, 1000): the delay between two e-mails, in ms.
PacingInterval == 1000

\* Requests are identified by their submission number.
Req == 1..MaxRequests

\* Errors transporter.sendMail can reject with.
Errors == {"EAUTH", "ECONNECTION"}

\* Amounts of time (ms) that may pass between two events.
TickSteps == {500, 999, 1000}

VARIABLES
  emailQueue,         \* const emailQueue = []: ids of the queued items, head first
  isProcessingQueue,  \* let isProcessingQueue = false
  workers,            \* activations of processEmailQueue that passed the guard
  handle,             \* per request: the promise behind the item's resolve/reject
  settles,            \* per request: how many times resolve or reject was called
  outcome,            \* per request: what the transport did with it
  resp,               \* per request: the HTTP response of the submitting handler
  sendLog,            \* ids in the order transporter.sendMail was called
  startVia,           \* per request: which code path called sendMail for it
  submittedIn,        \* per request: what the worker was doing when it was pushed
  nextId,             \* number of the next request to be submitted
  sinceSend,          \* ms since the latest sendMail call (saturating)
  lastGap,            \* ms between the two latest sendMail calls (saturating)
  db,                 \* the user's notificationPreferences as stored in MongoDB
  hs,                 \* per request handler: its position and its local variables
  mail,               \* per request: what the pushed mailOptions say
  clock               \* the latest value new Date() has returned

\* The variables of the notification policy; the queue never touches them.
polVars == <<db, hs, mail, clock>>

vars == <<emailQueue, isProcessingQueue, workers, handle, settles, outcome,
          resp, sendLog, startVia, submittedIn, nextId, sinceSend, lastGap,
          db, hs, mail, clock>>

Min(a, b) == IF a < b THEN a ELSE b

Max(a, b) == IF a > b THEN a ELSE b

RemoveAt(s, i) == SubSeq(s, 1, i - 1) \o SubSeq(s, i + 1, Len(s))

Pending == [st |-> "pending", reason |-> "none"]

NoHandle == [st |-> "none", reason |-> "none"]

\* What the worker is doing: nothing, awaiting sendMail, or awaiting the timer.
WorkerState == IF workers = <<>> THEN "idle" ELSE workers[1].pc

\* aqi_threshold_good: { type: Number, default: 50 }
DefaultGoodThreshold == 50

\* aqi_threshold_bad: { type: Number, default: 100 }
DefaultBadThreshold == 100

\* notificationCooldown: { type: Number, default: 3600000 }
DefaultCooldown == 3600000

\* The request handlers that may run concurrently.
Handlers == {"h1", "h2"}

\* The document of a freshly registered user: its notificationPreferences,
\* with lastNotificationSent absent (lastSet = FALSE) until sendEmail stores
\* it, and whether the document is in the collection.
DefaultPrefs ==
  [email |-> TRUE, goodOn |-> TRUE, badOn |-> TRUE,
   good |-> DefaultGoodThreshold, bad |-> DefaultBadThreshold,
   lastSet |-> FALSE, lastAt |-> 0, cooldown |-> DefaultCooldown,
   registered |-> TRUE]

\* What one call of sendEmail / sendAQINotification read and decided.
NoEval == [dec |-> "none", now |-> 0, lastSet |-> FALSE, lastAt |-> 0]

\* A handler that has not received its request yet.  aqi2 is the reading in
\* halves (twice the AQI), item the id of the queue item it awaits.
IdleHandler ==
  [pc |-> "idle", kind |-> "none", aqi2 |-> 0, user |-> DefaultPrefs,
   stage |-> "none", now |-> 0, item |-> 0, status |-> "none",
   evGood |-> NoEval, evBad |-> NoEval, evLife |-> NoEval]

\* mailOptions of a message that is not built by the notification policy.
NoMail == [tpl |-> "none", aqi2 |-> 0, shown2 |-> 0, at |-> 0]

\* The queue at process start.
QueueInit ==
  /\ emailQueue = <<>>
  /\ isProcessingQueue = FALSE
  /\ workers = <<>>
  /\ handle = [r \in Req |-> NoHandle]
  /\ settles = [r \in Req |-> 0]
  /\ outcome = [r \in Req |-> "none"]
  /\ resp = [r \in Req |-> "none"]
  /\ sendLog = <<>>
  /\ startVia = [r \in Req |-> "none"]
  /\ submittedIn = [r \in Req |-> "none"]
  /\ nextId = 1
  /\ sinceSend = 0
  /\ lastGap = 0

Init ==
  /\ db = DefaultPrefs
  /\ hs = [h \in Handlers |-> IdleHandler]
  /\ mail = [r \in Req |-> NoMail]
  /\ clock = 0
  /\ emailQueue = <<>>
  /\ isProcessingQueue = FALSE
  /\ workers = <<>>
  /\ handle = [r \in Req |-> NoHandle]
  /\ settles = [r \in Req |-> 0]
  /\ outcome = [r \in Req |-> "none"]
  /\ resp = [r \in Req |-> "none"]
  /\ sendLog = <<>>
  /\ startVia = [r \in Req |-> "none"]
  /\ submittedIn = [r \in Req |-> "none"]
  /\ nextId = 1
  /\ sinceSend = 0
  /\ lastGap = 0

\* Faulty guard: the isProcessingQueue test is missing.
GuardReturnsIgnoringFlag(flag, q) == Len(q) = 0

\* Faulty guard: the flag is tested but a second activation is let through
\* whenever the running one is in its pacing delay.
GuardReturnsUnlessDelaying(flag, q) ==
  (flag /\ WorkerState # "delay") \/ Len(q) = 0

\* if (isProcessingQueue || emailQueue.length === 0) return;
GuardReturns(flag, q) == flag \/ Len(q) = 0

\* Faulty loop: `if` in place of `while`, the worker handles one item only.
LoopNever(q) == FALSE

\* while (emailQueue.length > 0)
LoopContinues(q) == Len(q) > 0

\* Faulty removal: emailQueue.pop() in place of shift().
ShiftLast(q) == [item |-> q[Len(q)], rest |-> SubSeq(q, 1, Len(q) - 1)]

\* emailQueue.shift(): the head item and the queue without it
Shift(q) == [item |-> Head(q), rest |-> Tail(q)]

\* Faulty settlement: resolve in a finally block, whatever the send did.
SettledHandleAlwaysResolved(result) == [st |-> "resolved", reason |-> "none"]

\* Faulty settlement: reject with a fresh error, dropping the transport's.
SettledHandleGenericError(result) ==
  IF result = "ok" THEN [st |-> "resolved", reason |-> "none"]
  ELSE [st |-> "rejected", reason |-> "Failed to send email"]

\* try { await sendMail; resolve({success: true}) } catch (error) { reject(error) }
SettledHandle(result) ==
  IF result = "ok" THEN [st |-> "resolved", reason |-> "none"]
  ELSE [st |-> "rejected", reason |-> result]

\* Faulty pacing: the delay sits inside the try block and is skipped on failure.
DelayOnlyOnSuccess(result) == IF result = "ok" THEN PacingInterval ELSE 0

\* await new Promise(resolve => setTimeout(resolve, 1000)) after the try/catch
DelayAfterItem(result) == PacingInterval

\* transporter.sendMail(mailOptions) is called for item: the send is in flight
BeginSend(item, via) ==
  /\ sendLog' = Append(sendLog, item)
  /\ outcome' = [outcome EXCEPT ![item] = "inflight"]
  /\ startVia' = [startVia EXCEPT ![item] = via]
  /\ lastGap' = IF sendLog = <<>> THEN lastGap ELSE sinceSend
  /\ sinceSend' = 0

\* emailQueue.push({ mailOptions, resolve, reject }); processEmailQueue();
\* the call runs synchronously up to the worker's first await.
PushItem ==
  /\ nextId <= MaxRequests
  /\ LET r == nextId
         q == Append(emailQueue, r)
     IN /\ nextId' = nextId + 1
        /\ handle' = [handle EXCEPT ![r] = Pending]
        /\ submittedIn' = [submittedIn EXCEPT ![r] = WorkerState]
        /\ IF GuardReturns(isProcessingQueue, q)
           THEN /\ emailQueue' = q
                /\ UNCHANGED <<isProcessingQueue, workers, outcome, sendLog,
                               startVia, sinceSend, lastGap>>
           ELSE /\ isProcessingQueue' = TRUE
                /\ emailQueue' = Shift(q).rest
                /\ workers' = Append(workers,
                     [pc |-> "sending", item |-> Shift(q).item, timer |-> 0])
                /\ BeginSend(Shift(q).item, "guard")
  /\ UNCHANGED <<settles, resp>>

\* Faulty submit: the handler waits for the send in flight before it pushes.
SubmitWhenNotSending ==
  /\ WorkerState # "sending"
  /\ PushItem
  /\ UNCHANGED polVars

\* A handler builds mailOptions from the request body, pushes the item and
\* calls processEmailQueue().
Submit ==
  /\ PushItem
  /\ UNCHANGED polVars

\* Faulty worker: a failed item is pushed back onto the queue for a retry.
SendCompleteRetrying(i, result) ==
  /\ i \in DOMAIN workers
  /\ workers[i].pc = "sending"
  /\ LET item == workers[i].item
     IN /\ outcome' = [outcome EXCEPT ![item] = result]
        /\ IF result = "ok"
           THEN /\ settles' = [settles EXCEPT ![item] = @ + 1]
                /\ handle' = [handle EXCEPT ![item] = SettledHandle(result)]
                /\ UNCHANGED emailQueue
           ELSE /\ emailQueue' = Append(emailQueue, item)
                /\ UNCHANGED <<settles, handle>>
        /\ workers' = [workers EXCEPT ![i] =
                        [pc |-> "delay", item |-> item,
                         timer |-> DelayAfterItem(result)]]
  /\ UNCHANGED <<isProcessingQueue, resp, sendLog, startVia, submittedIn,
                 nextId, sinceSend, lastGap>>
  /\ UNCHANGED polVars

\* Faulty worker: no try/catch, a rejected sendMail ends the activation with
\* the flag still set.
SendCompleteThrowing(i, result) ==
  /\ i \in DOMAIN workers
  /\ workers[i].pc = "sending"
  /\ LET item == workers[i].item
     IN /\ outcome' = [outcome EXCEPT ![item] = result]
        /\ IF result = "ok"
           THEN /\ settles' = [settles EXCEPT ![item] = @ + 1]
                /\ handle' = [handle EXCEPT ![item] = SettledHandle(result)]
                /\ workers' = [workers EXCEPT ![i] =
                                [pc |-> "delay", item |-> item,
                                 timer |-> DelayAfterItem(result)]]
           ELSE /\ workers' = RemoveAt(workers, i)
                /\ UNCHANGED <<settles, handle>>
  /\ UNCHANGED <<emailQueue, isProcessingQueue, resp, sendLog, startVia,
                 submittedIn, nextId, sinceSend, lastGap>>
  /\ UNCHANGED polVars

\* The promise of sendMail settles: the worker resumes after its first await,
\* settles the item's promise and arms the pacing timer.
SendComplete(i, result) ==
  /\ i \in DOMAIN workers
  /\ workers[i].pc = "sending"
  /\ LET item == workers[i].item
     IN /\ outcome' = [outcome EXCEPT ![item] = result]
        /\ settles' = [settles EXCEPT ![item] = @ + 1]
        /\ handle' = [handle EXCEPT ![item] =
                        IF @.st = "pending" THEN SettledHandle(result) ELSE @]
        /\ workers' = [workers EXCEPT ![i] =
                        [pc |-> "delay", item |-> item,
                         timer |-> DelayAfterItem(result)]]
  /\ UNCHANGED <<emailQueue, isProcessingQueue, resp, sendLog, startVia,
                 submittedIn, nextId, sinceSend, lastGap>>
  /\ UNCHANGED polVars

\* The pacing timer fires: the worker re-tests the loop condition and either
\* shifts and sends the next item or clears the flag and returns.
TimerFire(i) ==
  /\ i \in DOMAIN workers
  /\ workers[i].pc = "delay"
  /\ workers[i].timer = 0
  /\ IF LoopContinues(emailQueue)
     THEN /\ emailQueue' = Shift(emailQueue).rest
          /\ workers' = [workers EXCEPT ![i] =
               [pc |-> "sending", item |-> Shift(emailQueue).item, timer |-> 0]]
          /\ BeginSend(Shift(emailQueue).item, "loop")
          /\ UNCHANGED isProcessingQueue
     ELSE /\ isProcessingQueue' = FALSE
          /\ workers' = RemoveAt(workers, i)
          /\ UNCHANGED <<emailQueue, outcome, sendLog, startVia, sinceSend,
                         lastGap>>
  /\ UNCHANGED <<handle, settles, resp, submittedIn, nextId>>
  /\ UNCHANGED polVars

\* The handler that awaited the item's promise resumes and answers.
Respond(r) ==
  /\ r \in Req
  /\ resp[r] = "none"
  /\ handle[r].st \in {"resolved", "rejected"}
  /\ resp' = [resp EXCEPT ![r] = IF handle[r].st = "resolved" THEN "200" ELSE "500"]
  /\ UNCHANGED <<emailQueue, isProcessingQueue, workers, handle, settles,
                 outcome, sendLog, startVia, submittedIn, nextId, sinceSend,
                 lastGap>>
  /\ UNCHANGED polVars

\* d milliseconds pass; timers count down, a due timer may still fire late.
Tick(d) ==
  /\ sinceSend' = Min(sinceSend + d, PacingInterval)
  /\ workers' = [i \in DOMAIN workers |->
                   [workers[i] EXCEPT !.timer = Max(@ - d, 0)]]
  /\ UNCHANGED <<emailQueue, isProcessingQueue, handle, settles, outcome,
                 resp, sendLog, startVia, submittedIn, nextId, lastGap>>
  /\ UNCHANGED polVars

SendSucceeds == \E i \in 1..MaxRequests : SendComplete(i, "ok")

SendFails == \E i \in 1..MaxRequests : \E e \in Errors : SendComplete(i, e)

TimerFires == \E i \in 1..MaxRequests : TimerFire(i)

Responds == \E r \in Req : Respond(r)

Ticks == \E d \in TickSteps : Tick(d)

Next ==
  \/ Submit
  \/ SendSucceeds
  \/ SendFails
  \/ TimerFires
  \/ Responds
  \/ Ticks

Spec == Init /\ [][Next]_vars

\* Every send completes and timers fire.
LiveSpec ==
  /\ Spec
  /\ WF_vars(SendSucceeds \/ SendFails)
  /\ WF_vars(TimerFires)
  /\ WF_vars(Ticks)

TypeOK ==
  /\ emailQueue \in Seq(Req)
  /\ isProcessingQueue \in BOOLEAN
  /\ \A i \in DOMAIN workers :
       /\ workers[i].pc \in {"sending", "delay"}
       /\ workers[i].item \in Req
       /\ workers[i].timer \in 0..PacingInterval
  /\ \A r \in Req :
       /\ handle[r].st \in {"none", "pending", "resolved", "rejected"}
       /\ outcome[r] \in {"none", "inflight", "ok"} \cup Errors
       /\ resp[r] \in {"none", "200", "500"}
       /\ submittedIn[r] \in {"none", "idle", "sending", "delay"}
       /\ startVia[r] \in {"none", "guard", "loop"}
  /\ nextId \in 1..(MaxRequests + 1)
  /\ sinceSend \in 0..PacingInterval
  /\ lastGap \in 0..PacingInterval

Range(q) == {q[k] : k \in DOMAIN q}

Completed == {"ok"} \cup Errors

\* Activations of the worker that are awaiting transporter.sendMail.
Sending == {i \in DOMAIN workers : workers[i].pc = "sending"}

\* Requests whose send the transport has been given and has not finished.
InFlight == {r \in Req : outcome[r] = "inflight"}

(***************************************************************************)
(* C1: at most one sendMail call of the queue worker is in flight at any   *)
(* time; no send is started while an earlier one has not completed.        *)
(***************************************************************************)
C1_AtMostOneSendInFlight ==
  /\ Cardinality(Sending) <= 1
  /\ Cardinality(InFlight) <= 1

\* A send is in flight while two further requests have been pushed behind it.
C1_Witness ==
  /\ Cardinality(InFlight) = 1
  /\ Len(emailQueue) >= 2

(***************************************************************************)
(* C2: FIFO.  If A was pushed before B then sendMail is called for A       *)
(* before it is called for B: the send log lists the requests in           *)
(* submission order, with none skipped.                                    *)
(***************************************************************************)
C2_FifoDelivery ==
  /\ \A j, k \in DOMAIN sendLog : j < k => sendLog[j] < sendLog[k]
  /\ \A b \in Range(sendLog) : \A a \in Req : a < b => a \in Range(sendLog)

\* Three requests, pushed while the worker was idle, sending and pacing,
\* have all been handed to the transport.
C2_Witness ==
  /\ Len(sendLog) >= 3
  /\ \E a, b, c \in Range(sendLog) :
       /\ submittedIn[a] = "idle"
       /\ submittedIn[b] = "sending"
       /\ submittedIn[c] = "delay"

(***************************************************************************)
(* C3: at most one activation of processEmailQueue is past the guard at    *)
(* any time, and a push made while isProcessingQueue is true only appends: *)
(* its processEmailQueue() call leaves workers, flag and send log alone.   *)
(***************************************************************************)
C3_SingleWorker ==
  /\ [](Len(workers) <= 1 /\ (isProcessingQueue <=> Len(workers) = 1))
  /\ [][(isProcessingQueue /\ nextId' # nextId) =>
          /\ emailQueue' = Append(emailQueue, nextId)
          /\ workers' = workers
          /\ isProcessingQueue' = isProcessingQueue
          /\ sendLog' = sendLog]_vars

\* Three back-to-back pushes on an idle queue: one worker, two items waiting.
C3_Witness ==
  /\ Len(workers) = 1
  /\ Len(sendLog) = 1
  /\ Len(emailQueue) >= 2
  /\ sinceSend = 0

(***************************************************************************)
(* C4: every request is handed to the transport at most once; a request    *)
(* whose send has started (failed ones included) is never in the queue     *)
(* again; and a request leaves the queue only by having its send started.  *)
(***************************************************************************)
C4_SentAtMostOnce ==
  /\ \A j, k \in DOMAIN sendLog : j # k => sendLog[j] # sendLog[k]
  /\ \A r \in Req : outcome[r] # "none" => r \notin Range(emailQueue)
  /\ \A r \in Req : r < nextId => (r \in Range(emailQueue) \/ r \in Range(sendLog))
  /\ \A r \in Range(sendLog) : outcome[r] # "none"

\* A send has failed and the worker has gone on to later requests.
C4_Witness ==
  /\ \E r \in Req : outcome[r] \in Errors /\ settles[r] = 1
  /\ Len(sendLog) >= 3
  /\ emailQueue = <<>>

Settled == {"resolved", "rejected"}

(***************************************************************************)
(* C5: liveness.  If every send completes and timers fire, every request   *)
(* that was pushed is eventually sent and its promise is eventually        *)
(* settled, whatever the worker was doing when it was pushed and whatever  *)
(* happened to the other requests.                                         *)
(***************************************************************************)
C5_EveryRequestSettled ==
  \A r \in Req :
    (handle[r].st = "pending") ~>
      (outcome[r] \in Completed /\ handle[r].st \in Settled)

\* A request failed, and requests pushed behind it during a send and during
\* a pacing delay were sent and settled all the same.
C5_Witness ==
  \E a, b, c \in Req :
    /\ a < b /\ a < c
    /\ outcome[a] \in Errors
    /\ submittedIn[b] = "sending" /\ handle[b].st = "resolved"
    /\ submittedIn[c] = "delay" /\ handle[c].st \in Settled

\* The step in which the transport fails the send of x.
FailStep(x) == outcome[x] = "inflight" /\ outcome'[x] \in Errors

\* The latest request handed to the transport.
LastSent == sendLog[Len(sendLog)]

(***************************************************************************)
(* C6: when the transport fails the send of X, X's own promise is rejected *)
(* with the transport's error, no other promise is touched, the worker     *)
(* stays in its loop with the flag set and the queue as it was, and the    *)
(* send started next is for the request that was next in line.             *)
(***************************************************************************)
C6_FailureIsLocal ==
  /\ [][\A x \in Req : FailStep(x) =>
          /\ handle'[x] = [st |-> "rejected", reason |-> outcome'[x]]
          /\ \A y \in Req \ {x} : handle'[y] = handle[y] /\ settles'[y] = settles[y]
          /\ isProcessingQueue /\ isProcessingQueue'
          /\ emailQueue' = emailQueue
          /\ Len(workers') = 1 /\ workers'[1].pc = "delay"]_vars
  /\ [][(sendLog # <<>> /\ Len(sendLog') > Len(sendLog)
           /\ outcome[sendLog[Len(sendLog)]] \in Errors) =>
          sendLog'[Len(sendLog')] = Head(emailQueue \o <<nextId>>)]_vars

\* A send failed while another request was queued; that request is now in
\* flight, its promise still pending.
C6_Witness ==
  \E k \in DOMAIN sendLog :
    /\ k + 1 \in DOMAIN sendLog
    /\ outcome[sendLog[k]] \in Errors
    /\ handle[sendLog[k]].st = "rejected"
    /\ startVia[sendLog[k + 1]] = "loop"
    /\ outcome[sendLog[k + 1]] = "inflight"
    /\ handle[sendLog[k + 1]].st = "pending"

(***************************************************************************)
(* C7: each promise is settled exactly once, only once the send of its own *)
(* request has completed, and with that send's outcome: resolved iff the   *)
(* send succeeded, rejected (with the send's error) iff it failed.         *)
(***************************************************************************)
C7_HandleMatchesOwnSend ==
  \A r \in Req :
    /\ settles[r] <= 1
    /\ settles[r] = 1 <=> outcome[r] \in Completed
    /\ handle[r].st = "resolved" <=> outcome[r] = "ok"
    /\ handle[r].st = "rejected" <=> outcome[r] \in Errors
    /\ handle[r].st = "rejected" => handle[r].reason = outcome[r]
    /\ handle[r].st = "pending" <=> (r < nextId /\ outcome[r] \in {"none", "inflight"})

\* One request succeeded, another failed, a third is still in flight.
C7_Witness ==
  \E a, b, c \in Req :
    /\ handle[a].st = "resolved"
    /\ handle[b].st = "rejected"
    /\ outcome[c] = "inflight"

(***************************************************************************)
(* C8: pacing.  Two consecutive sendMail calls are at least the pacing     *)
(* interval apart, also across a worker exit and restart and after a       *)
(* failed send.                                                            *)
(***************************************************************************)
C8_Pacing == Len(sendLog) >= 2 => lastGap >= PacingInterval

\* The latest send was started by a push on an idle queue, after the send
\* before it had failed and the worker had exited.
C8_Witness ==
  /\ Len(sendLog) >= 2
  /\ startVia[LastSent] = "guard"
  /\ outcome[sendLog[Len(sendLog) - 1]] \in Errors
  /\ sinceSend = 0

(***************************************************************************)
(* C9: no stranded requests.  Whenever isProcessingQueue is false the      *)
(* queue is empty: the worker clears the flag only on an empty queue, and  *)
(* a push made with the flag clear starts a worker on that request.        *)
(***************************************************************************)
C9_NoStrandedRequests ==
  /\ [](~isProcessingQueue => emailQueue = <<>>)
  /\ [][(isProcessingQueue /\ ~isProcessingQueue') => emailQueue = <<>>]_vars
  /\ [][(~isProcessingQueue /\ nextId' # nextId) =>
          /\ isProcessingQueue'
          /\ sendLog' = Append(sendLog, nextId)
          /\ emailQueue' = <<>>]_vars

\* A worker drained the queue and exited, a later push started a new one,
\* and that one has exited too.
C9_Witness ==
  /\ ~isProcessingQueue
  /\ \E r \in Req : r > 1 /\ startVia[r] = "guard" /\ outcome[r] \in Completed

(***************************************************************************)
(* C10: a push is possible in every state of the worker and for every      *)
(* queue length, and the worker's next step never waits for a submitter:   *)
(* a send can complete and a due timer can fire whether or not any         *)
(* settled promise has been consumed by its handler.                       *)
(***************************************************************************)
C10_SubmitNeverBlocked ==
  /\ nextId <= MaxRequests => ENABLED Submit
  /\ \A i \in DOMAIN workers :
       /\ workers[i].pc = "sending" => ENABLED SendComplete(i, "ok")
       /\ (workers[i].pc = "delay" /\ workers[i].timer = 0) => ENABLED TimerFire(i)

\* Requests were pushed while the worker was idle, sending and pacing; the
\* first is settled but its handler has not resumed, and the worker has
\* gone on to the next request regardless.
C10_Witness ==
  /\ \E a, b, c \in Req :
       /\ submittedIn[a] = "idle"
       /\ submittedIn[b] = "sending"
       /\ submittedIn[c] = "delay"
  /\ \E r \in Range(sendLog) :
       /\ handle[r].st \in Settled
       /\ resp[r] = "none"
       /\ \E n \in Range(sendLog) : n > r /\ startVia[n] = "loop"

(***************************************************************************)
(* C20: head-of-line blocking.  For as long as the send of X has not       *)
(* completed, no other send is started, no promise is settled, the flag    *)
(* stays set and the worker stays where it is; a push in that time only    *)
(* appends.  The passage of time alone never ends a send.                  *)
(***************************************************************************)
C20_HeadOfLineBlocking ==
  [][\A x \in Req :
       /\ (outcome[x] = "inflight" /\ outcome'[x] = "inflight") =>
            /\ sendLog' = sendLog
            /\ isProcessingQueue /\ isProcessingQueue'
            /\ \A y \in Req : handle'[y].st \in Settled => handle[y].st \in Settled
            /\ Sending' = Sending /\ Len(workers') = Len(workers)
            /\ nextId' # nextId => emailQueue' = Append(emailQueue, nextId)
            /\ nextId' = nextId => emailQueue' = emailQueue
       /\ (outcome[x] = "inflight" /\ outcome'[x] # "inflight") =>
            /\ sinceSend' = sinceSend
            /\ outcome'[x] \in Completed]_vars

\* The first send has been in flight for a full pacing interval or more and
\* two requests pushed in the meantime are still waiting behind it.
C20_Witness ==
  /\ sendLog # <<>>
  /\ outcome[sendLog[1]] = "inflight"
  /\ sinceSend = PacingInterval
  /\ Len(emailQueue) >= 2
  /\ \A r \in Range(emailQueue) : submittedIn[r] = "sending" /\ handle[r].st = "pending"

(***************************************************************************)
(* The notification policy of the cooldown variant: the sendEmail helper   *)
(* and the /api/update-aqi and /api/login routes that call it.  Every      *)
(* handler works on its own copy of the user document, loaded by findById  *)
(* or findOne; user.save() writes the modified path back.                  *)
(***************************************************************************)

queueVars == <<emailQueue, isProcessingQueue, workers, handle, settles,
               outcome, resp, sendLog, startVia, submittedIn, nextId,
               sinceSend, lastGap>>

\* Values new Date() may return, in ms.
Times == {0, DefaultCooldown - 1, DefaultCooldown}

\* Readings a request may carry, in halves: 50, 75 and 100.
AqiReadings2 == {100, 150, 200}

\* Preference records a user may have stored when the requests arrive: the
\* channel and the two alerts switched on or off, the thresholds at their
\* defaults or swapped, the cooldown at its default or zero.  No
\* notification has been sent yet.
PrefsChoices ==
  {[email |-> e, goodOn |-> f[1], badOn |-> f[2], good |-> th[1], bad |-> th[2],
    lastSet |-> FALSE, lastAt |-> 0, cooldown |-> c, registered |-> TRUE] :
     e \in BOOLEAN,
     f \in {<<TRUE, TRUE>>, <<FALSE, TRUE>>, <<TRUE, FALSE>>},
     th \in {<<DefaultGoodThreshold, DefaultBadThreshold>>,
             <<DefaultBadThreshold, DefaultGoodThreshold>>},
     c \in {0, DefaultCooldown}}

\* Requests are taken up in the order of the handlers' names.
MayStart(h) ==
  /\ hs[h].pc = "idle"
  /\ h = "h2" => hs["h1"].pc # "idle"

\* Faulty test: the boundary instant is still inside the cooldown.
CooldownActiveInclusive(u, t) == u.lastSet /\ (t - u.lastAt) <= u.cooldown

\* if (lastNotification && (now - lastNotification) < cooldown) return;
CooldownActive(u, t) == u.lastSet /\ (t - u.lastAt) < u.cooldown

\* The two early returns of sendEmail.
SendEmailGate(u, t) ==
  IF ~u.email THEN "email disabled"
  ELSE IF CooldownActive(u, t) THEN "cooldown active"
  ELSE "fire"

\* Faulty comparison: a reading equal to the threshold is not good.
GoodConditionStrict(u, a2) == u.goodOn /\ a2 < 2 * u.good

\* if (goodAQINotification && aqi <= aqi_threshold_good)
GoodCondition(u, a2) == u.goodOn /\ a2 <= 2 * u.good

\* if (badAQINotification && aqi >= aqi_threshold_bad)
BadCondition(u, a2) == u.badOn /\ a2 >= 2 * u.bad

Eval(d, u, t) == [dec |-> d, now |-> t, lastSet |-> u.lastSet, lastAt |-> u.lastAt]

\* sendEmail got past its early returns: it pushes the message and awaits it.
\* The texts of this variant interpolate the reading as it came.
PushFromSendEmail(h, rec, tpl, a2, t) ==
  /\ PushItem
  /\ mail' = [mail EXCEPT ![nextId] =
               [tpl |-> tpl, aqi2 |-> a2, shown2 |-> a2, at |-> t]]
  /\ hs' = [hs EXCEPT ![h] =
              [rec EXCEPT !.pc = "awaitSend", !.now = t, !.item = nextId]]
  /\ clock' = t

\* Faulty helper: the timestamp is written before the early returns.
FinishStampingUser(h, rec, status, t) ==
  /\ hs' = [hs EXCEPT ![h] =
              [rec EXCEPT !.pc = "done", !.status = status,
                          !.user = [@ EXCEPT !.lastSet = TRUE, !.lastAt = t]]]
  /\ clock' = t
  /\ UNCHANGED mail
  /\ UNCHANGED queueVars

\* The route answers; nothing was pushed in this segment.
Finish(h, rec, status, t) ==
  /\ hs' = [hs EXCEPT ![h] = [rec EXCEPT !.pc = "done", !.status = status]]
  /\ clock' = t
  /\ UNCHANGED mail
  /\ UNCHANGED queueVars

\* The second `if` of /api/update-aqi and what follows it.
RunBad(h, rec, c) ==
  IF BadCondition(rec.user, rec.aqi2)
  THEN \E t \in Times :
         /\ t >= c
         /\ LET d == SendEmailGate(rec.user, t)
                r == [rec EXCEPT !.stage = "bad", !.evBad = Eval(d, rec.user, t)]
            IN IF d = "fire"
               THEN PushFromSendEmail(h, r, "BAD", rec.aqi2, t)
               ELSE Finish(h, r, "200", t)
  ELSE Finish(h, [rec EXCEPT !.evBad = Eval("no threshold", rec.user, c)], "200", c)

\* The first `if` of /api/update-aqi; a sendEmail that returns early lets
\* the handler run on into the second `if` in the same turn.
RunGood(h, rec) ==
  IF GoodCondition(rec.user, rec.aqi2)
  THEN \E t \in Times :
         /\ t >= clock
         /\ LET d == SendEmailGate(rec.user, t)
                r == [rec EXCEPT !.stage = "good", !.evGood = Eval(d, rec.user, t)]
            IN IF d = "fire"
               THEN PushFromSendEmail(h, r, "GOOD", rec.aqi2, t)
               ELSE RunBad(h, r, t)
  ELSE RunBad(h, [rec EXCEPT !.evGood = Eval("no threshold", rec.user, clock)], clock)

\* POST /api/update-aqi: findById resolves and the handler runs up to its
\* first pending await.
UpdateAqi(h, a2) ==
  /\ MayStart(h)
  /\ RunGood(h, [hs[h] EXCEPT !.kind = "aqi", !.aqi2 = a2, !.user = db])
  /\ UNCHANGED db

\* POST /api/login: findOne resolves; bcrypt.compare and user.save() follow.
LoginLoad(h) ==
  /\ MayStart(h)
  /\ hs' = [hs EXCEPT ![h] = [@ EXCEPT !.pc = "loaded", !.kind = "login", !.user = db]]
  /\ UNCHANGED <<db, mail, clock>>
  /\ UNCHANGED queueVars

\* POST /api/login: the login notification goes through sendEmail.
LoginNotify(h) ==
  /\ hs[h].pc = "loaded"
  /\ \E t \in Times :
       /\ t >= clock
       /\ LET d == SendEmailGate(hs[h].user, t)
              r == [hs[h] EXCEPT !.stage = "life", !.evLife = Eval(d, hs[h].user, t)]
          IN IF d = "fire"
             THEN PushFromSendEmail(h, r, "LOGIN", 0, t)
             ELSE Finish(h, r, "200", t)
  /\ UNCHANGED db

\* Faulty helper: the catch block logs the error and does not rethrow it.
SendEmailResumesSwallowing(h) ==
  /\ hs[h].pc = "awaitSend"
  /\ handle[hs[h].item].st \in {"resolved", "rejected"}
  /\ IF handle[hs[h].item].st = "resolved"
     THEN hs' = [hs EXCEPT ![h] =
                   [@ EXCEPT !.pc = "saving",
                             !.user = [@ EXCEPT !.lastSet = TRUE, !.lastAt = hs[h].now]]]
     ELSE hs' = [hs EXCEPT ![h] = [@ EXCEPT !.pc = "done", !.status = "200"]]
  /\ UNCHANGED <<db, mail, clock>>
  /\ UNCHANGED queueVars

\* Faulty helper: the timestamp is written in a finally block, whatever the
\* send did.
SendEmailResumesAlwaysStamps(h) ==
  /\ hs[h].pc = "awaitSend"
  /\ handle[hs[h].item].st \in {"resolved", "rejected"}
  /\ hs' = [hs EXCEPT ![h] =
              [@ EXCEPT !.pc = IF handle[hs[h].item].st = "resolved"
                               THEN "saving" ELSE "done",
                        !.status = IF handle[hs[h].item].st = "resolved"
                                   THEN @ ELSE "500",
                        !.user = [@ EXCEPT !.lastSet = TRUE, !.lastAt = hs[h].now]]]
  /\ UNCHANGED <<db, mail, clock>>
  /\ UNCHANGED queueVars

\* sendEmail resumes after `await new Promise(...)`: on success it stamps the
\* handler's user document and calls user.save(); on failure it rethrows and
\* the route answers 500.
SendEmailResumes(h) ==
  /\ hs[h].pc = "awaitSend"
  /\ handle[hs[h].item].st \in {"resolved", "rejected"}
  /\ IF handle[hs[h].item].st = "resolved"
     THEN hs' = [hs EXCEPT ![h] =
                   [@ EXCEPT !.pc = "saving",
                             !.user = [@ EXCEPT !.lastSet = TRUE, !.lastAt = hs[h].now]]]
     ELSE hs' = [hs EXCEPT ![h] = [@ EXCEPT !.pc = "done", !.status = "500"]]
  /\ UNCHANGED <<db, mail, clock>>
  /\ UNCHANGED queueVars

\* user.save() succeeds: lastNotificationSent is stored and the handler goes
\* on, into the second `if` of /api/update-aqi or to its response.
SaveDone(h) ==
  /\ hs[h].pc = "saving"
  /\ db' = [db EXCEPT !.lastSet = TRUE, !.lastAt = hs[h].user.lastAt]
  /\ IF hs[h].stage = "good"
     THEN RunBad(h, hs[h], clock)
     ELSE Finish(h, hs[h], "200", clock)

\* user.save() fails: sendEmail rethrows and the route answers 500.
SaveFails(h) ==
  /\ hs[h].pc = "saving"
  /\ hs' = [hs EXCEPT ![h] = [@ EXCEPT !.pc = "done", !.status = "500"]]
  /\ UNCHANGED <<db, mail, clock>>
  /\ UNCHANGED queueVars

CooldownInit ==
  /\ QueueInit
  /\ db \in PrefsChoices
  /\ hs = [h \in Handlers |-> IdleHandler]
  /\ mail = [r \in Req |-> NoMail]
  /\ clock = 0

UpdatesAqi == \E h \in Handlers : \E a2 \in AqiReadings2 : UpdateAqi(h, a2)

LoginLoads == \E h \in Handlers : LoginLoad(h)

LoginNotifies == \E h \in Handlers : LoginNotify(h)

SendEmailResumptions == \E h \in Handlers : SendEmailResumes(h)

SavesDone == \E h \in Handlers : SaveDone(h)

SavesFail == \E h \in Handlers : SaveFails(h)

\* A whole pacing interval passes.
PacingTick == Tick(PacingInterval)

CooldownNext ==
  \/ UpdatesAqi
  \/ LoginLoads
  \/ LoginNotifies
  \/ SendEmailResumptions
  \/ SavesDone
  \/ SavesFail
  \/ SendSucceeds
  \/ SendFails
  \/ TimerFires
  \/ PacingTick

CooldownSpec == CooldownInit /\ [][CooldownNext]_vars

\* The requests pushed so far that carry a threshold alert.
Alerts == {r \in Req : mail[r].tpl \in {"GOOD", "BAD"}}

(***************************************************************************)
(* C11: cooldown between alerts.  Once a threshold alert has been pushed   *)
(* with evaluation time t, no further threshold alert of the same user is  *)
(* pushed with an evaluation time less than the cooldown after t.          *)
(***************************************************************************)
C11_CooldownBetweenAlerts ==
  \A r1, r2 \in Alerts :
    r1 < r2 => mail[r2].at - mail[r1].at >= db.cooldown

C13_LifecycleNeverGated ==
  \A h \in Handlers : hs[h].evLife.dec # "cooldown active"

\* The evaluations a handler has made.
Evals(h) == {hs[h].evGood, hs[h].evBad, hs[h].evLife}

(***************************************************************************)
(* C15: the cooldown predicate.  A message that would otherwise go out is  *)
(* held back by cooldown iff lastNotificationSent is set and now minus it  *)
(* is less than the cooldown.                                              *)
(***************************************************************************)
C15_CooldownPredicate ==
  \A h \in Handlers : \A ev \in Evals(h) :
    ev.dec \in {"fire", "cooldown active"} =>
      (ev.dec = "cooldown active" <=>
         (ev.lastSet /\ ev.now - ev.lastAt < db.cooldown))

\* One request was held back one millisecond before the cooldown ran out
\* and fired at the instant it ran out; another fired with no timestamp set.
C15_Witness ==
  /\ db.cooldown = DefaultCooldown
  /\ \E h \in Handlers :
       /\ hs[h].evGood.dec = "cooldown active"
       /\ hs[h].evGood.lastSet
       /\ hs[h].evGood.now = hs[h].evGood.lastAt + db.cooldown - 1
       /\ hs[h].evBad.dec = "fire"
       /\ hs[h].evBad.lastSet
       /\ hs[h].evBad.now = hs[h].evBad.lastAt + db.cooldown
  /\ \E h \in Handlers : \E ev \in Evals(h) : ev.dec = "fire" /\ ~ev.lastSet

(***************************************************************************)
(* C17: good wins.  For one reading that satisfies both conditions, with   *)
(* email enabled and no cooldown active, exactly one alert is pushed and   *)
(* it is the GOOD one, for every cooldown including 0.                     *)
(***************************************************************************)
C17_GoodWins ==
  \A h \in Handlers :
    hs[h].evGood.dec = "fire" => hs[h].evBad.dec # "fire"

\* The evaluations handler h makes in this step, and those that fired.
NewEvals(h) ==
  {f \in {"evGood", "evBad", "evLife"} : hs'[h][f] # hs[h][f]}

NewFires(h) == {f \in NewEvals(h) : hs'[h][f].dec = "fire"}

(***************************************************************************)
(* C19: a suppressed evaluation has no effect.  A handler step whose       *)
(* evaluations all came out suppressed pushes nothing, leaves the worker   *)
(* and the whole queue alone and changes no preference: the handler's      *)
(* document stays as loaded and the stored record is touched by nothing    *)
(* but the pending save of an alert that fired earlier.                    *)
(***************************************************************************)
C19_SuppressedHasNoEffect ==
  [][\A h \in Handlers :
       (NewEvals(h) # {} /\ NewFires(h) = {}) =>
         /\ UNCHANGED queueVars
         /\ mail' = mail
         /\ hs'[h].user = (IF hs[h].pc = "idle" THEN db ELSE hs[h].user)
         /\ hs'[h].item = hs[h].item
         /\ (db' = db \/ hs[h].pc = "saving")]_vars

\* A request was answered with nothing pushed: held back by cooldown after
\* another request's alert had been sent and stored.
C19_Witness ==
  \E h \in Handlers :
    /\ hs[h].pc = "done" /\ hs[h].item = 0 /\ hs[h].status = "200"
    /\ hs[h].evGood.dec = "cooldown active"
    /\ hs[h].evBad.dec \in {"cooldown active", "no threshold"}
    /\ hs[h].user = db
    /\ nextId = 2

(***************************************************************************)
(* The threshold policy of the variant without cooldown:                   *)
(* sendAQINotification and the /api/send-email and /api/user/update routes *)
(* that push onto the queue.  The preference record keeps the fields of    *)
(* the cooldown variant; this variant neither reads nor writes them.       *)
(***************************************************************************)

\* Readings a request may carry, in halves: -2.5, -1, 2.5, 49.5, 50, 50.5,
\* 75, 99.5 and 100.
NotifyReadings2 == {-5, -2, 5, 99, 100, 101, 150, 199, 200}

\* What the body of a /api/send-email request asks for: an AQI
\* notification (aqi given) or a message with the caller's subject and text.
BodyKinds == {"alert", "generic"}

NotifyPrefsChoices == {p \in PrefsChoices : p.cooldown = DefaultCooldown}

\* Faulty check: the email preference is not consulted.
EmailDisabledNever(u) == FALSE

\* if (!user.notificationPreferences.email)
EmailDisabled(u) == ~u.email

\* Faulty rounding: the fraction is cut off.
MathFloor(a2) == a2 \div 2

\* Math.round(aqi) for a reading given in halves: floor(aqi + 1/2).
MathRound(a2) == (a2 + 1) \div 2

\* sendAQINotification up to `if (shouldNotify)`: the early return, then the
\* if / else if that builds one of the two texts.
AqiDecision(u, a2) ==
  IF EmailDisabled(u) THEN "email disabled"
  ELSE IF GoodCondition(u, a2) THEN "GOOD"
  ELSE IF BadCondition(u, a2) THEN "BAD"
  ELSE "none"

\* A route pushes its message and awaits the promise.
PushFromRoute(h, rec, tpl, a2, shown2) ==
  /\ PushItem
  /\ mail' = [mail EXCEPT ![nextId] =
               [tpl |-> tpl, aqi2 |-> a2, shown2 |-> shown2, at |-> clock]]
  /\ hs' = [hs EXCEPT ![h] = [rec EXCEPT !.pc = "awaitSend", !.item = nextId]]
  /\ UNCHANGED clock

\* POST /api/send-email: findById resolves and the handler runs up to its
\* first pending await or to its response.
SendEmailRoute(h, kind, a2) ==
  /\ MayStart(h)
  /\ LET rec == [hs[h] EXCEPT !.kind = kind, !.aqi2 = a2, !.user = db]
         d == AqiDecision(db, a2)
     IN IF EmailDisabled(db)
        THEN Finish(h, [rec EXCEPT !.stage = "email disabled"], "400", clock)
        ELSE IF kind = "alert"
        THEN IF d \in {"GOOD", "BAD"}
             THEN PushFromRoute(h, [rec EXCEPT !.stage = d], d, a2,
                                2 * MathRound(a2))
             ELSE Finish(h, [rec EXCEPT !.stage = d], "200", clock)
        ELSE PushFromRoute(h, [rec EXCEPT !.stage = "generic"], "GENERIC", 0, 0)
  /\ UNCHANGED db

\* PUT /api/user/update with notificationPreferences.email = e: user.save()
\* has stored the record and the handler pushes the confirmation message.
UpdateProfile(h, e) ==
  /\ MayStart(h)
  /\ db' = [db EXCEPT !.email = e]
  /\ PushFromRoute(h, [hs[h] EXCEPT !.kind = "update", !.stage = "life",
                                    !.user = [db EXCEPT !.email = e]],
                   "UPDATE", 0, 0)

\* The route resumes after its await: res.json on a resolved promise, the
\* catch block's 500 on a rejected one.
RouteResumes(h) ==
  /\ hs[h].pc = "awaitSend"
  /\ handle[hs[h].item].st \in {"resolved", "rejected"}
  /\ hs' = [hs EXCEPT ![h] =
              [@ EXCEPT !.pc = "done",
                        !.status = IF handle[hs[h].item].st = "resolved"
                                   THEN "200" ELSE "500"]]
  /\ UNCHANGED <<db, mail, clock>>
  /\ UNCHANGED queueVars

NotifyInit ==
  /\ QueueInit
  /\ db \in NotifyPrefsChoices
  /\ hs = [h \in Handlers |-> IdleHandler]
  /\ mail = [r \in Req |-> NoMail]
  /\ clock = 0

SendEmailRequests ==
  \E h \in Handlers : \E kind \in BodyKinds : \E a2 \in NotifyReadings2 :
    SendEmailRoute(h, kind, a2)

ProfileUpdates == \E h \in Handlers : \E e \in BOOLEAN : UpdateProfile(h, e)

RouteResumptions == \E h \in Handlers : RouteResumes(h)

NotifyNext ==
  \/ SendEmailRequests
  \/ ProfileUpdates
  \/ RouteResumptions
  \/ SendSucceeds
  \/ SendFails
  \/ TimerFires
  \/ PacingTick

NotifySpec == NotifyInit /\ [][NotifyNext]_vars

\* The message handler h pushed, if it pushed one.
Pushed(h) == IF hs[h].item = 0 THEN "none" ELSE mail[hs[h].item].tpl

(***************************************************************************)
(* C14: disabled channel.  A /api/send-email request that finds the email  *)
(* preference false pushes nothing, whatever the reading and the other     *)
(* preferences are, and is answered 400; every alert and every             *)
(* /api/send-email message in the queue or handed to the transport was     *)
(* pushed by a request that found the preference true.                     *)
(***************************************************************************)
C14_DisabledChannel ==
  /\ [](\A h \in Handlers :
          (hs[h].kind \in BodyKinds /\ ~hs[h].user.email) =>
            /\ hs[h].item = 0
            /\ hs[h].pc = "done" /\ hs[h].status = "400")
  /\ [](\A r \in Req :
          mail[r].tpl \in {"GOOD", "BAD", "GENERIC"} =>
            \E h \in Handlers : hs[h].item = r /\ hs[h].user.email)
  /\ [][\A h \in Handlers :
          (hs[h].pc = "idle" /\ hs'[h].kind \in BodyKinds /\ ~db.email) =>
            /\ UNCHANGED queueVars
            /\ mail' = mail]_vars

\* The channel was switched off by a profile update; a later request with a
\* reading over the bad threshold was then answered 400 with nothing pushed.
C14_Witness ==
  \E g, h \in Handlers :
    /\ hs[g].kind = "update" /\ ~db.email
    /\ hs[h].kind = "alert" /\ hs[h].pc = "done" /\ hs[h].status = "400"
    /\ BadCondition(hs[h].user, hs[h].aqi2)
    /\ hs[h].item = 0 /\ nextId = 2

(***************************************************************************)
(* C16: threshold boundaries are inclusive.  With email and both alerts    *)
(* enabled a reading r fires GOOD when r <= goodThreshold, BAD when        *)
(* r >= badThreshold and r > goodThreshold, and nothing in between; with   *)
(* the defaults 50 fires GOOD, 100 fires BAD and 75 nothing.  A condition  *)
(* whose flag is off never fires.                                          *)
(***************************************************************************)
C16_InclusiveThresholds ==
  \A h \in Handlers :
    (hs[h].kind = "alert" /\ hs[h].user.email) =>
      LET u == hs[h].user
          r2 == hs[h].aqi2
      IN /\ (u.goodOn /\ u.badOn) =>
              /\ r2 <= 2 * u.good => Pushed(h) = "GOOD"
              /\ (r2 >= 2 * u.bad /\ r2 > 2 * u.good) => Pushed(h) = "BAD"
              /\ (2 * u.good < r2 /\ r2 < 2 * u.bad) => Pushed(h) = "none"
         /\ (u.goodOn /\ u.badOn /\ u.good = 50 /\ u.bad = 100) =>
              /\ r2 = 100 => Pushed(h) = "GOOD"
              /\ r2 = 200 => Pushed(h) = "BAD"
              /\ r2 = 150 => Pushed(h) = "none"
         /\ ~u.goodOn => Pushed(h) # "GOOD"
         /\ ~u.badOn => Pushed(h) # "BAD"

\* With the default thresholds a reading of exactly 50 fired GOOD and a
\* reading of exactly 100 fired BAD.
C16_Witness ==
  /\ db.goodOn /\ db.badOn
  /\ db.good = DefaultGoodThreshold /\ db.bad = DefaultBadThreshold
  /\ \E g, b \in Handlers :
       /\ hs[g].aqi2 = 100 /\ Pushed(g) = "GOOD"
       /\ hs[b].aqi2 = 200 /\ Pushed(b) = "BAD"

(***************************************************************************)
(* C18 as stated: the reading shown in an alert is the reading rounded to  *)
(* the nearest integer, ties away from zero, also for negative readings.   *)
(***************************************************************************)
C18_RoundsHalfAwayFromZero ==
  \A r \in Alerts :
    mail[r].shown2 =
      IF mail[r].aqi2 >= 0
      THEN 2 * ((mail[r].aqi2 + 1) \div 2)
      ELSE 0 - 2 * ((1 - mail[r].aqi2) \div 2)

(***************************************************************************)
(* C18 as amended: the reading shown in an alert is the integer n nearest  *)
(* to the reading with ties rounded up, n - 1/2 <= reading < n + 1/2; for  *)
(* readings >= 0 this is rounding half away from zero, -2.5 is shown as -2.*)
(***************************************************************************)
C18_RoundsHalfUp ==
  \A r \in Alerts :
    /\ mail[r].shown2 % 2 = 0
    /\ mail[r].shown2 - 1 <= mail[r].aqi2
    /\ mail[r].aqi2 < mail[r].shown2 + 1
    /\ mail[r].aqi2 = -5 => mail[r].shown2 = -4

\* Alerts were pushed for the readings -2.5 and 2.5, shown as -2 and 3.
C18_Witness ==
  \E a, b \in Alerts :
    /\ mail[a].aqi2 = -5 /\ mail[a].shown2 = -4
    /\ mail[b].aqi2 = 5 /\ mail[b].shown2 = 6

(***************************************************************************)
(* The variant without a queue: its /api/send-email route hands the        *)
(* message to the transport itself and awaits the send.  emailQueue,       *)
(* isProcessingQueue and the worker do not exist in this variant and stay  *)
(* as they start.                                                          *)
(***************************************************************************)

\* POST /api/send-email: findById resolves; the handler answers 400 or calls
\* transporter.sendMail and awaits it.
DirectSend(h) ==
  /\ MayStart(h)
  /\ nextId <= MaxRequests
  /\ LET rec == [hs[h] EXCEPT !.kind = "generic", !.user = db]
     IN IF EmailDisabled(db)
        THEN Finish(h, [rec EXCEPT !.stage = "email disabled"], "400", clock)
        ELSE /\ BeginSend(nextId, "direct")
             /\ nextId' = nextId + 1
             /\ mail' = [mail EXCEPT ![nextId] =
                          [tpl |-> "GENERIC", aqi2 |-> 0, shown2 |-> 0, at |-> clock]]
             /\ hs' = [hs EXCEPT ![h] =
                         [rec EXCEPT !.pc = "awaitSend", !.stage = "generic",
                                     !.item = nextId]]
             /\ UNCHANGED <<emailQueue, isProcessingQueue, workers, handle,
                            settles, resp, submittedIn, clock>>
  /\ UNCHANGED db

\* The promise of the route's own sendMail settles: res.json on success, the
\* catch block's 500 on failure.
DirectSendCompletes(h, result) ==
  /\ hs[h].pc = "awaitSend"
  /\ outcome[hs[h].item] = "inflight"
  /\ outcome' = [outcome EXCEPT ![hs[h].item] = result]
  /\ hs' = [hs EXCEPT ![h] =
              [@ EXCEPT !.pc = "done",
                        !.status = IF result = "ok" THEN "200" ELSE "500"]]
  /\ UNCHANGED <<emailQueue, isProcessingQueue, workers, handle, settles,
                 resp, sendLog, startVia, submittedIn, nextId, sinceSend,
                 lastGap>>
  /\ UNCHANGED <<db, mail, clock>>

DirectInit ==
  /\ QueueInit
  /\ db \in {DefaultPrefs, [DefaultPrefs EXCEPT !.email = FALSE]}
  /\ hs = [h \in Handlers |-> IdleHandler]
  /\ mail = [r \in Req |-> NoMail]
  /\ clock = 0

DirectSends == \E h \in Handlers : DirectSend(h)

DirectSendSucceeds == \E h \in Handlers : DirectSendCompletes(h, "ok")

DirectSendFails ==
  \E h \in Handlers : \E e \in Errors : DirectSendCompletes(h, e)

DirectNext ==
  \/ DirectSends
  \/ DirectSendSucceeds
  \/ DirectSendFails
  \/ Ticks

DirectSpec == DirectInit /\ [][DirectNext]_vars

(***************************************************************************)
(* C21: every call of transporter.sendMail is made by the queue worker, so *)
(* at most one send is in flight and consecutive sends are a pacing        *)
(* interval apart, also with two concurrent /api/send-email requests.      *)
(***************************************************************************)
C21_AllSendsByWorker ==
  /\ \A r \in Range(sendLog) : startVia[r] \in {"guard", "loop"}
  /\ Cardinality(InFlight) <= 1
  /\ Len(sendLog) >= 2 => lastGap >= PacingInterval

(***************************************************************************)
(* C22: sending a lifecycle message never changes lastNotificationSent: a  *)
(* login handler never reaches the save of the timestamp, and a stored     *)
(* timestamp is the evaluation time of a threshold alert that was sent.    *)
(***************************************************************************)
C22_LifecycleNeverStamps ==
  /\ \A h \in Handlers : hs[h].kind = "login" => hs[h].pc # "saving"
  /\ db.lastSet => \E r \in Alerts : outcome[r] = "ok" /\ mail[r].at = db.lastAt

\* The evaluation handler h made last.
LastEval(h) ==
  IF hs[h].stage = "good" THEN hs[h].evGood
  ELSE IF hs[h].stage = "bad" THEN hs[h].evBad
  ELSE hs[h].evLife

(***************************************************************************)
(* C23: when the transport fails the send of a message pushed by           *)
(* sendEmail, lastNotificationSent stays as sendEmail read it, on the      *)
(* handler's document and in the stored record, and the error reaches the  *)
(* route, which answers 500; the timestamp is written only after the       *)
(* message's own send has succeeded.                                       *)
(***************************************************************************)
C23_FailedSendLeavesTimestamp ==
  /\ [](\A h \in Handlers :
          (hs[h].item # 0 /\ outcome[hs[h].item] \in Errors /\ hs[h].pc = "done") =>
            /\ hs[h].status = "500"
            /\ hs[h].user.lastSet = LastEval(h).lastSet
            /\ hs[h].user.lastAt = LastEval(h).lastAt)
  /\ [](\A h \in Handlers :
          hs[h].pc = "saving" =>
            /\ outcome[hs[h].item] = "ok"
            /\ handle[hs[h].item].st = "resolved")
  /\ [][\A h \in Handlers :
          (hs[h].pc = "awaitSend" /\ handle[hs[h].item].st = "rejected"
             /\ hs'[h] # hs[h]) =>
            /\ db' = db
            /\ hs'[h].user = hs[h].user
            /\ hs'[h].pc = "done" /\ hs'[h].status = "500"]_vars

\* A request's GOOD alert was sent and its timestamp stored; the send of its
\* BAD alert, evaluated later, failed: the request was answered 500 and the
\* timestamp is still the GOOD alert's.
C23_Witness ==
  \E h \in Handlers :
    /\ hs[h].kind = "aqi" /\ hs[h].stage = "bad"
    /\ hs[h].pc = "done" /\ hs[h].status = "500"
    /\ outcome[hs[h].item] \in Errors
    /\ hs[h].evBad.now > hs[h].evGood.now
    /\ hs[h].user.lastSet /\ hs[h].user.lastAt = hs[h].evGood.now
    /\ db.lastSet /\ db.lastAt = hs[h].evGood.now

(***************************************************************************)
(* Registration in the variant that queues the welcome message: the        *)
(* /api/register route for one email address, which is unique in the       *)
(* collection.                                                             *)
(***************************************************************************)

\* No document with the request's email address is stored yet.
NoUser == [DefaultPrefs EXCEPT !.registered = FALSE]

\* POST /api/register: User.findOne resolves; an existing document ends the
\* request with 400, otherwise bcrypt.hash and newUser.save() follow.
RegisterLookup(h) ==
  /\ MayStart(h)
  /\ LET rec == [hs[h] EXCEPT !.kind = "register", !.user = db]
     IN IF db.registered
        THEN Finish(h, [rec EXCEPT !.stage = "exists"], "400", clock)
        ELSE /\ hs' = [hs EXCEPT ![h] = [rec EXCEPT !.pc = "saving"]]
             /\ UNCHANGED <<mail, clock>>
             /\ UNCHANGED queueVars
  /\ UNCHANGED db

\* newUser.save() resolves: the document is stored, and the handler pushes
\* the welcome message and awaits its promise.
RegisterSaved(h) ==
  /\ hs[h].kind = "register" /\ hs[h].pc = "saving"
  /\ ~db.registered
  /\ db' = DefaultPrefs
  /\ PushFromRoute(h, [hs[h] EXCEPT !.stage = "saved", !.user = DefaultPrefs],
                   "WELCOME", 0, 0)

\* newUser.save() rejects (the unique index on email, or the database): the
\* catch block answers 500.
RegisterSaveFails(h) ==
  /\ hs[h].kind = "register" /\ hs[h].pc = "saving"
  /\ Finish(h, [hs[h] EXCEPT !.stage = "save failed"], "500", clock)
  /\ UNCHANGED db

\* Faulty route: it answers 201 whatever became of the welcome message.
RegisterResumesIgnoringOutcome(h) ==
  /\ hs[h].kind = "register" /\ hs[h].pc = "awaitSend"
  /\ handle[hs[h].item].st \in {"resolved", "rejected"}
  /\ hs' = [hs EXCEPT ![h] = [@ EXCEPT !.pc = "done", !.status = "201"]]
  /\ UNCHANGED <<db, mail, clock>>
  /\ UNCHANGED queueVars

\* The route resumes after its await: 201 on a resolved promise, the catch
\* block's 500 on a rejected one.
RegisterResumes(h) ==
  /\ hs[h].kind = "register" /\ hs[h].pc = "awaitSend"
  /\ handle[hs[h].item].st \in {"resolved", "rejected"}
  /\ hs' = [hs EXCEPT ![h] =
              [@ EXCEPT !.pc = "done",
                        !.status = IF handle[hs[h].item].st = "resolved"
                                   THEN "201" ELSE "500"]]
  /\ UNCHANGED <<db, mail, clock>>
  /\ UNCHANGED queueVars

RegisterInit ==
  /\ QueueInit
  /\ db = NoUser
  /\ hs = [h \in Handlers |-> IdleHandler]
  /\ mail = [r \in Req |-> NoMail]
  /\ clock = 0

RegisterLookups == \E h \in Handlers : RegisterLookup(h)

RegisterSaves == \E h \in Handlers : RegisterSaved(h)

RegisterSavesFail == \E h \in Handlers : RegisterSaveFails(h)

RegisterResumptions == \E h \in Handlers : RegisterResumes(h)

RegisterNext ==
  \/ RegisterLookups
  \/ RegisterSaves
  \/ RegisterSavesFail
  \/ RegisterResumptions
  \/ SendSucceeds
  \/ SendFails
  \/ TimerFires
  \/ Ticks

RegisterSpec == RegisterInit /\ [][RegisterNext]_vars

(***************************************************************************)
(* C24: registration answers only after the promise of its own welcome     *)
(* message is settled: 201 only if that send succeeded, 500 if it failed.  *)
(* The stored user is never removed again, so after a failed welcome       *)
(* message a registration with the same email is answered 400.             *)
(***************************************************************************)
C24_RegisterAwaitsWelcome ==
  /\ [](\A h \in Handlers :
          (hs[h].kind = "register" /\ hs[h].status = "201") =>
            /\ hs[h].item # 0
            /\ mail[hs[h].item].tpl = "WELCOME"
            /\ handle[hs[h].item].st = "resolved"
            /\ outcome[hs[h].item] = "ok")
  /\ [](\A h \in Handlers :
          (hs[h].kind = "register" /\ hs[h].item # 0) =>
            /\ db.registered
            /\ handle[hs[h].item].st = "pending" => hs[h].pc = "awaitSend"
            /\ (hs[h].pc = "done" /\ outcome[hs[h].item] \in Errors) =>
                 hs[h].status = "500")
  /\ [][db.registered => db'.registered]_vars
  /\ [][\A h \in Handlers :
          (hs[h].pc = "idle" /\ hs'[h].kind = "register" /\ db.registered) =>
            /\ hs'[h].pc = "done" /\ hs'[h].status = "400"
            /\ UNCHANGED queueVars]_vars

\* A registration stored the user, its welcome message failed and it was
\* answered 500; a second registration with the same email was answered 400.
C24_Witness ==
  \E f, g \in Handlers :
    /\ hs[f].kind = "register" /\ hs[f].stage = "saved"
    /\ outcome[hs[f].item] \in Errors
    /\ hs[f].pc = "done" /\ hs[f].status = "500"
    /\ db.registered
    /\ hs[g].kind = "register" /\ hs[g].stage = "exists"
    /\ hs[g].pc = "done" /\ hs[g].status = "400"
====
